---- MODULE Spec2Model ----
(***************************************************************************)
(* Model of AvAtom's input validation (check_inputs.py) and of the SCF     *)
(* driver ISModel.CalcEnergy (models.py) with its final report             *)
(* (writeoutput.SCF.write_final).                                          *)
(*                                                                         *)
(* Python values are records [t |-> type tag, v |-> integer payload].      *)
(* A float payload is an integer count of a fixed unit: mixfrac is counted *)
(* in units of 1/MixDen, potentials in units of 1/Scale.  A dictionary is  *)
(* a record over its possible keys in which a missing key holds Absent.    *)
(***************************************************************************)
EXTENDS Integers, Sequences, FiniteSets, TLC

\* ---------------------------------------------------------------- bounds
MaxMaxscf == 3      \* largest configured maxscf explored
MixDen == 3         \* mixfrac takes the values 0/MixDen .. MixDen/MixDen
MaxCalls == 2       \* CalcEnergy calls per process
MaxNele == 10       \* largest electron count explored
MaxMag == 6         \* largest spin magnetization explored

\* ------------------------------------------------------- python values
PyInt(n) == [t |-> "int", v |-> n]
PyFloat(n) == [t |-> "float", v |-> n]
PyStr(n) == [t |-> "str", v |-> n]
Absent == [t |-> "absent", v |-> 0]
None == [t |-> "none", v |-> 0]

\* isinstance(x, intc)
IsIntc(x) == x.t = "int"
\* isinstance(x, float)
IsFloat(x) == x.t = "float"
\* an ordering comparison of x with a number raises TypeError for these
Unordered(x) == x.t \notin {"int", "float"}

\* try: d[k]  except KeyError: dflt[k]
Lookup(d, dflt, k) == IF d[k] = Absent THEN dflt[k] ELSE d[k]

\* ------------------------------------------ process-wide defaults (config)
config_grid_params == [ngrid |-> PyInt(1000), x0 |-> PyInt(-12)]
config_conv_params == [econv |-> PyFloat(10), nconv |-> PyFloat(100), vconv |-> PyFloat(100)]

\* ------------------------------------------------ EnergyCalcs validators
Ok(val) == [err |-> "none", val |-> val, warn |-> "none"]
Fail(kind) == [err |-> kind, val |-> None, warn |-> "none"]

check_grid_params(grid_params, cfg) ==
    LET ngrid == Lookup(grid_params, cfg, "ngrid")
        x0 == Lookup(grid_params, cfg, "x0")
    IN  IF ~IsIntc(ngrid) THEN Fail("grid_error")
        ELSE IF ngrid.v < 0 THEN Fail("grid_error")
        ELSE IF Unordered(x0) THEN Fail("TypeError")
        ELSE IF x0.v > -3 THEN Fail("grid_error")
        ELSE [err |-> "none",
              val |-> [ngrid |-> ngrid, x0 |-> x0],
              warn |-> IF ngrid.v < 500 THEN "low"
                       ELSE IF ngrid.v > 5000 THEN "high" ELSE "none"]

ConvBad(x) == ~IsFloat(x) \/ x.v < 0

check_conv_params(input_params, cfg) ==
    LET econv == Lookup(input_params, cfg, "econv")
        nconv == Lookup(input_params, cfg, "nconv")
        vconv == Lookup(input_params, cfg, "vconv")
    IN  IF ConvBad(econv) \/ ConvBad(nconv) \/ ConvBad(vconv)
        THEN Fail("conv_error")
        ELSE Ok([econv |-> econv, nconv |-> nconv, vconv |-> vconv])

\* check_scf_params taking any number for mixfrac
check_scf_params_AnyNumber(input_params, cfg) ==
    LET maxscf == Lookup(input_params, cfg, "maxscf")
        mixfrac == Lookup(input_params, cfg, "mixfrac")
    IN  IF ~IsIntc(maxscf) THEN Fail("SCF_error")
        ELSE IF maxscf.v < 1 THEN Fail("SCF_error")
        ELSE IF Unordered(mixfrac) THEN Fail("SCF_error")
        ELSE IF mixfrac.v < 0 \/ mixfrac.v > MixDen THEN Fail("SCF_error")
        ELSE Ok([maxscf |-> maxscf, mixfrac |-> mixfrac])

check_scf_params(input_params, cfg) ==
    LET maxscf == Lookup(input_params, cfg, "maxscf")
        mixfrac == Lookup(input_params, cfg, "mixfrac")
    IN  IF ~IsIntc(maxscf) THEN Fail("SCF_error")
        ELSE IF maxscf.v < 1 THEN Fail("SCF_error")
        ELSE IF ~IsFloat(mixfrac) THEN Fail("SCF_error")
        ELSE IF mixfrac.v < 0 \/ mixfrac.v > MixDen THEN Fail("SCF_error")
        ELSE Ok([maxscf |-> maxscf, mixfrac |-> mixfrac])

\* ---------------------------------------------------- ISModel validators
\* check_spinmag without the odd-electron-count branch of the parity test
check_spinmag_NoOdd(spinmag, nele) ==
    IF ~IsIntc(spinmag) THEN Fail("spinmag_error")
    ELSE IF spinmag.v = -1
         THEN IF nele % 2 = 0 THEN Ok(PyInt(0)) ELSE Ok(PyInt(1))
    ELSE IF spinmag.v > -1
         THEN IF nele % 2 = 0 /\ spinmag.v % 2 # 0 THEN Fail("spinmag_error")
              ELSE Ok(spinmag)
    ELSE Fail("spinmag_error")

\* check_spinmag with the automatic value fixed to 0
check_spinmag_AutoZero(spinmag, nele) ==
    IF ~IsIntc(spinmag) THEN Fail("spinmag_error")
    ELSE IF spinmag.v = -1 THEN Ok(PyInt(0))
    ELSE IF spinmag.v > -1
         THEN IF nele % 2 = 0 /\ spinmag.v % 2 # 0 THEN Fail("spinmag_error")
              ELSE IF nele % 2 # 0 /\ spinmag.v % 2 = 0 THEN Fail("spinmag_error")
              ELSE Ok(spinmag)
    ELSE Fail("spinmag_error")

\* check_spinmag(spinmag, nele): nele is the atom's integer electron count
check_spinmag(spinmag, nele) ==
    IF ~IsIntc(spinmag) THEN Fail("spinmag_error")
    ELSE IF spinmag.v = -1
         THEN IF nele % 2 = 0 THEN Ok(PyInt(0)) ELSE Ok(PyInt(1))
    ELSE IF spinmag.v > -1
         THEN IF nele % 2 = 0 /\ spinmag.v % 2 # 0 THEN Fail("spinmag_error")
              ELSE IF nele % 2 # 0 /\ spinmag.v % 2 = 0 THEN Fail("spinmag_error")
              ELSE Ok(spinmag)
    ELSE Fail("spinmag_error")

\* ------------------------------------------------------------ SCF state
VARIABLES
    pc,            \* position of the process: idle, build, mix, test, final, returned, exit
    err,           \* kind of the error the process exited with
    ncalls,        \* CalcEnergy calls started so far
    config,        \* the process-wide config module (grid_params, conv_params, scf_params)
    args,          \* grid_params, conv_params, scf_params arguments of the running call
    range_n,       \* length of range(config.scf_params["maxscf"])
    iscf,          \* loop index
    orbs,          \* orbitals: iteration that solved them (-1: initial guess), finiteness
    rho,           \* density built in the current iteration
    pot,           \* potential object built in the current iteration
    energy,        \* energy object built in the current iteration
    v_s,           \* potential handed to the orbital solve
    v_s_old,       \* previous potential kept for mixing
    conv_vals,     \* result of the last convergence check
    solve_log,     \* the (at most two) latest potentials orbs.compute received in the loop
    tracker_log,   \* flags returned by conv.check_conv in this call
    step_log,      \* how often each loop step ran in this call
    final_report,  \* arguments and wording of write_final, None before it ran
    n_final,       \* write_final calls in this call
    ret,           \* value returned to the caller, None before the return
    spin_pc,       \* position of a check_spinmag call: off, call, done
    spin_nele,     \* its nele argument
    spin_arg,      \* its spinmag argument
    spin_res,      \* its outcome: the returned value or the error raised
    call_in,       \* arguments of the validator calls under study
    call_out,      \* their outcomes, None for a call not made yet
    ctor_pc,       \* position in ISModel.__init__: off, spin, spinmag, raised
    ctor_in,       \* arguments of ISModel.__init__
    ctor_cfg,      \* what __init__ has written to the config module so far
    ctor_err       \* the exception __init__ ended with

scfvars == <<pc, err, ncalls, config, args, range_n, iscf, orbs, rho, pot, energy,
             v_s, v_s_old, conv_vals, solve_log, tracker_log, step_log,
             final_report, n_final, ret>>
spinvars == <<spin_pc, spin_nele, spin_arg, spin_res>>
callvars == <<call_in, call_out>>
ctorvars == <<ctor_pc, ctor_in, ctor_cfg, ctor_err>>
vars == <<scfvars, spinvars, callvars, ctorvars>>

\* potentials and energies: a finite value or a non-finite one
Fin(n) == [fin |-> TRUE, v |-> n]
NaN == [fin |-> FALSE, v |-> 0]
\* a local name that was never assigned
Unbound == [fin |-> FALSE, v |-> -1]

\* smallest unit of a potential: MixDen^MaxMaxscf parts make up one
RECURSIVE Pow(_, _)
Pow(b, e) == IF e = 0 THEN 1 ELSE b * Pow(b, e - 1)
Scale == Pow(MixDen, MaxMaxscf)
PotVals == {0, Scale}

\* alpha * new + (1 - alpha) * old, alpha counted in 1/MixDen
Mix(alpha, new, old) ==
    IF ~new.fin \/ ~old.fin THEN NaN
    ELSE Fin((alpha * new.v + (MixDen - alpha) * old.v) \div MixDen)

NoStep == [build |-> 0, mix |-> 0, solve |-> 0, test |-> 0]

\* arguments the callers pass
NoKey2 == [ngrid |-> Absent, x0 |-> Absent]
GridArgs == {NoKey2,
             [ngrid |-> PyInt(2000), x0 |-> PyInt(-6)],
             [ngrid |-> PyInt(-5), x0 |-> Absent]}
NoKey3 == [econv |-> Absent, nconv |-> Absent, vconv |-> Absent]
ConvArgs == {NoKey3,
             [econv |-> PyFloat(1), nconv |-> Absent, vconv |-> Absent],
             [econv |-> Absent, nconv |-> Absent, vconv |-> PyFloat(-1)]}
NoKeyScf == [maxscf |-> Absent, mixfrac |-> Absent]
ScfArgs == {NoKeyScf,
            [maxscf |-> PyInt(2), mixfrac |-> PyFloat(1)],
            [maxscf |-> PyInt(0), mixfrac |-> PyInt(1)],
            [maxscf |-> PyFloat(2), mixfrac |-> PyFloat(MixDen + 1)]}

Locals == <<range_n, iscf, orbs, rho, pot, energy, v_s, v_s_old, conv_vals>>

ClearLocals ==
    /\ range_n' = 0
    /\ iscf' = -1
    /\ orbs' = None
    /\ rho' = None
    /\ pot' = None
    /\ energy' = None
    /\ v_s' = Unbound
    /\ v_s_old' = Unbound
    /\ conv_vals' = None

\* the process before any CalcEnergy call, config.scf_params holding m and a
ScfInit(m, a) ==
    /\ pc = "idle"
    /\ err = "none"
    /\ ncalls = 0
    /\ config = [grid_params |-> config_grid_params,
                 conv_params |-> config_conv_params,
                 scf_params |-> [maxscf |-> PyInt(m), mixfrac |-> PyFloat(a)]]
    /\ args = None
    /\ range_n = 0
    /\ iscf = -1
    /\ orbs = None
    /\ rho = None
    /\ pot = None
    /\ energy = None
    /\ v_s = Unbound
    /\ v_s_old = Unbound
    /\ conv_vals = None
    /\ solve_log = <<>>
    /\ tracker_log = <<>>
    /\ step_log = NoStep
    /\ final_report = None
    /\ n_final = 0
    /\ ret = None

SpinOff ==
    /\ spin_pc = "off"
    /\ spin_nele = 0
    /\ spin_arg = None
    /\ spin_res = None

CallOff ==
    /\ call_in = None
    /\ call_out = None

CtorOff ==
    /\ ctor_pc = "off"
    /\ ctor_in = None
    /\ ctor_cfg = None
    /\ ctor_err = "none"

Init ==
    /\ \E m \in 1..MaxMaxscf, a \in 0..MixDen : ScfInit(m, a)
    /\ SpinOff
    /\ CallOff
    /\ CtorOff

\* ------------------------------------------------------ report emitter
\* the report with the two wordings swapped
write_final_Swapped(e, o, d, cv, cfg) ==
    [text |-> IF cv.complete THEN "SCF cycle did not converge"
              ELSE "SCF cycle converged",
     maxscf |-> IF cv.complete THEN None ELSE cfg.scf_params.maxscf,
     energy |-> e, orbitals |-> o, density |-> d, conv_vals |-> cv]

\* SCF.write_final: the wording depends on conv_vals["complete"]; the
\* unconverged wording quotes config.scf_params["maxscf"]
write_final(e, o, d, cv, cfg) ==
    [text |-> IF cv.complete THEN "SCF cycle converged"
              ELSE "SCF cycle did not converge",
     maxscf |-> IF cv.complete THEN None ELSE cfg.scf_params.maxscf,
     energy |-> e, orbitals |-> o, density |-> d, conv_vals |-> cv]

\* ----------------------------------------------------------- CalcEnergy
\* the scf parameters the loop runs with
LoopMaxscf(cfg, a) == cfg.scf_params.maxscf
LoopMixfrac(cfg, a) == cfg.scf_params.mixfrac

\* lines 148-172: validation, grid set-up, initial orbitals, tracker
CalcEnergy_setup(grid_params, conv_params, scf_params) ==
    /\ pc \in {"idle", "returned"}
    /\ ncalls < MaxCalls
    /\ ncalls' = ncalls + 1
    /\ args' = [grid_params |-> grid_params, conv_params |-> conv_params,
                scf_params |-> scf_params]
    /\ solve_log' = <<>>
    /\ tracker_log' = <<>>
    /\ step_log' = NoStep
    /\ final_report' = None
    /\ n_final' = 0
    /\ ret' = None
    /\ UNCHANGED <<rho, pot, energy, v_s, v_s_old, conv_vals>>
    /\ LET g == check_grid_params(grid_params, config.grid_params)
           c == check_conv_params(conv_params, config.conv_params)
       IN  IF g.err # "none"
           THEN /\ pc' = "exit"
                /\ err' = g.err
                /\ UNCHANGED <<config, range_n, iscf, orbs>>
           ELSE IF c.err # "none"
           THEN /\ pc' = "exit"
                /\ err' = c.err
                /\ config' = [config EXCEPT !.grid_params = g.val]
                /\ UNCHANGED <<range_n, iscf, orbs>>
           ELSE /\ config' = [config EXCEPT !.grid_params = g.val,
                                            !.conv_params = c.val]
                /\ orbs' = [iter |-> -1, fin |-> TRUE]
                /\ range_n' = LoopMaxscf(config', args').v
                /\ iscf' = IF range_n' > 0 THEN 0 ELSE -1
                /\ pc' = IF range_n' > 0 THEN "build" ELSE "final"
                /\ err' = "none"

\* lines 176-184: density, potential and energies from the current orbitals
SCF_build(ok, raw) ==
    /\ pc = "build"
    /\ rho' = [iter |-> iscf, fin |-> ok]
    /\ pot' = [iter |-> iscf, v_s |-> IF ok THEN Fin(raw) ELSE NaN]
    /\ energy' = [iter |-> iscf, F_tot |-> IF ok THEN Fin(-1) ELSE NaN]
    /\ step_log' = [step_log EXCEPT !.build = @ + 1]
    /\ pc' = "mix"
    /\ UNCHANGED <<err, ncalls, config, args, range_n, iscf, orbs, v_s, v_s_old,
                   conv_vals, solve_log, tracker_log, final_report, n_final, ret>>

\* mixing in every iteration, the first included
MixCond_Always(i) == i >= 0
\* mixing from the second iteration on
MixCond_FromOne(i) == i > 0
\* the condition under which the new potential is blended with the old one
MixCond(i) == i > 1

\* the potential remembered for the next iteration
StoreOld(used, raw) == used

Last2(s) == IF Len(s) > 2 THEN Tail(s) ELSE s

\* lines 186-198: mixing, orbital solve, store the old potential
SCF_mix(solved_ok) ==
    /\ pc = "mix"
    /\ IF MixCond(iscf) /\ v_s_old = Unbound
       THEN /\ pc' = "exit"
            /\ err' = "UnboundLocalError"
            /\ UNCHANGED <<orbs, v_s, v_s_old, solve_log, step_log>>
       ELSE /\ v_s' = IF MixCond(iscf)
                      THEN Mix(LoopMixfrac(config, args).v, pot.v_s, v_s_old)
                      ELSE pot.v_s
            /\ orbs' = [iter |-> iscf, fin |-> solved_ok /\ v_s'.fin]
            /\ solve_log' = Last2(Append(solve_log, v_s'))
            /\ v_s_old' = StoreOld(v_s', pot.v_s)
            /\ step_log' = [step_log EXCEPT
                               !.mix = @ + (IF MixCond(iscf) THEN 1 ELSE 0),
                               !.solve = @ + 1]
            /\ pc' = "test"
            /\ err' = err
    /\ UNCHANGED <<ncalls, config, args, range_n, iscf, rho, pot, energy,
                   conv_vals, tracker_log, final_report, n_final, ret>>

\* the exit test as it is without the break
Break_Never(cv) == FALSE
\* the loop is left when the tracker reports convergence
Break(cv) == cv.complete
\* the loop as a plausible slip would bound it: two indices too many
HasNext_Over(i, n) == i < n + 1
\* ... or one index too few
HasNext_Short(i, n) == i + 2 < n
\* range(maxscf) has a further index after i
HasNext(i, n) == i + 1 < n

\* lines 200-209: convergence check, cycle output, exit test
SCF_test(complete) ==
    /\ pc = "test"
    /\ conv_vals' = [complete |-> complete, iter |-> iscf]
    /\ tracker_log' = Append(tracker_log, complete)
    /\ step_log' = [step_log EXCEPT !.test = @ + 1]
    /\ IF Break(conv_vals') THEN pc' = "final" /\ iscf' = iscf
       ELSE IF HasNext(iscf, range_n) THEN pc' = "build" /\ iscf' = iscf + 1
       ELSE pc' = "final" /\ iscf' = iscf
    /\ UNCHANGED <<err, ncalls, config, args, range_n, orbs, rho, pot, energy,
                   v_s, v_s_old, solve_log, final_report, n_final, ret>>

\* what CalcEnergy hands back to its caller
Returned(e, cv) == [energy |-> e]

\* lines 211-217: final report, density file, return
CalcEnergy_final ==
    /\ pc = "final"
    /\ IF conv_vals = None
       THEN /\ pc' = "exit"
            /\ err' = "UnboundLocalError"
            /\ UNCHANGED <<final_report, n_final, ret, Locals>>
       ELSE /\ final_report' = write_final(energy, orbs, rho, conv_vals, config)
            /\ n_final' = n_final + 1
            /\ ret' = Returned(energy, conv_vals)
            /\ pc' = "returned"
            /\ err' = err
            /\ ClearLocals
    /\ UNCHANGED <<ncalls, config, args, solve_log, tracker_log, step_log>>

Next ==
    \/ \E g \in GridArgs, c \in ConvArgs, s \in ScfArgs :
          CalcEnergy_setup(g, c, s) /\ UNCHANGED <<spinvars, callvars, ctorvars>>
    \/ \E ok \in BOOLEAN, raw \in PotVals :
          SCF_build(ok /\ orbs.fin, raw) /\ UNCHANGED <<spinvars, callvars, ctorvars>>
    \/ \E ok \in BOOLEAN : SCF_mix(ok) /\ UNCHANGED <<spinvars, callvars, ctorvars>>
    \/ \E b \in BOOLEAN : SCF_test(b) /\ UNCHANGED <<spinvars, callvars, ctorvars>>
    \/ CalcEnergy_final /\ UNCHANGED <<spinvars, callvars, ctorvars>>

Spec == Init /\ [][Next]_vars

\* the scheduler is the Python interpreter: a started call keeps running
FairSpec == Spec /\ WF_vars(Next)

\* ------------------------------------------- check_spinmag on its inputs
SpinmagArgs == {PyInt(m) : m \in -3..MaxMag} \cup {PyFloat(1), PyStr(0)}

SpinInit ==
    /\ ScfInit(1, 0)
    /\ spin_pc = "call"
    /\ spin_nele \in 1..MaxNele
    /\ spin_arg \in SpinmagArgs
    /\ spin_res = None
    /\ CallOff
    /\ CtorOff

Call_check_spinmag ==
    /\ spin_pc = "call"
    /\ spin_res' = check_spinmag(spin_arg, spin_nele)
    /\ spin_pc' = "done"
    /\ UNCHANGED <<spin_nele, spin_arg, scfvars, callvars, ctorvars>>

SpinNext == Call_check_spinmag

SpinSpec == SpinInit /\ [][SpinNext]_vars


\* ------------------------------------------------------ ISModel.__init__
PyBool(b) == [t |-> "bool", v |-> IF b THEN 1 ELSE 0]
\* x == True: a bool or a number equal to 1
EqTrue(x) == x.t \in {"bool", "int", "float"} /\ x.v = 1

\* check_spinpol(spinpol); __init__ does not call it
check_spinpol(spinpol) ==
    IF spinpol.t # "bool" THEN Fail("spinpol_error") ELSE Ok(spinpol)

SpinpolArgs == {PyBool(TRUE), PyBool(FALSE), PyInt(1), PyInt(0), PyStr(0)}

CtorInit ==
    /\ ScfInit(1, 0)
    /\ SpinOff
    /\ CallOff
    /\ ctor_pc = "spin"
    /\ ctor_in \in [spinpol : SpinpolArgs,
                    spinmag : {PyInt(m) : m \in -1..2},
                    nele : 1..MaxNele]
    /\ ctor_cfg = None
    /\ ctor_err = "none"

\* lines 83-91: config.spinpol and config.spindims
ISModel_init_spin ==
    /\ ctor_pc = "spin"
    /\ ctor_cfg' = [spinpol |-> ctor_in.spinpol,
                    spindims |-> IF EqTrue(ctor_in.spinpol) THEN 2 ELSE 1]
    /\ ctor_pc' = "spinmag"
    /\ UNCHANGED <<ctor_in, ctor_err, scfvars, spinvars, callvars>>

\* line 94: check_inputs.Atom().check_spinmag: class Atom (check_inputs.py
\* 25-200) has no attribute check_spinmag, which is defined in class ISModel
ISModel_init_spinmag ==
    /\ ctor_pc = "spinmag"
    /\ ctor_pc' = "raised"
    /\ ctor_err' = "AttributeError"
    /\ UNCHANGED <<ctor_in, ctor_cfg, scfvars, spinvars, callvars>>

CtorNext ==
    \/ ISModel_init_spin
    \/ ISModel_init_spinmag

CtorSpec == CtorInit /\ [][CtorNext]_vars


\* ------------------------------------------------- Atom: radius and density
\* a radius payload counts tenths of a bohr (or of an angstrom before the
\* conversion), a density payload hundredths of a g/cm3
RadSentinel == -10      \* radius == -1
DensSentinel == -100    \* density == -1
RadMin == 1             \* 0.1
DensMax == 10000        \* 100
\* 3 * mp_g * cm_to_bohr^3 / (4 pi) = 2.694 g/cm3 bohr^3 per mass unit, in
\* hundredths of a g/cm3 times cubed tenths of a bohr
MassToDens == 269400

\* unitconv.angstrom_to_bohr * radius
angstrom_to_bohr(r) == (r * 18897) \div 10000

IsNumber(x) == x.t \in {"int", "float"}

RECURSIVE CbrtFrom(_, _)
CbrtFrom(n, r) == IF (r + 1) * (r + 1) * (r + 1) > n THEN r ELSE CbrtFrom(n, r + 1)
\* x ** (1.0 / 3.0) at the resolution of a radius payload
Cbrt(n) == CbrtFrom(n, 0)

\* radius_to_dens(atom, radius): mass over the sphere volume; radius # 0
radius_to_dens(at_mass, radius) ==
    (MassToDens * at_mass) \div (radius * radius * radius)

\* dens_to_radius(atom, density): radius of the sphere holding the mass;
\* density > 0
dens_to_radius(at_mass, density) ==
    Cbrt((MassToDens * at_mass) \div density)

RadDens(e, r, d) == [err |-> e, radius |-> r, density |-> d]

\* abs((density_test - density) / density) > 5e-2, density # 0
Incompatible(density_test, density) ==
    LET diff == IF density_test >= density THEN density_test - density
                ELSE density - density_test
        size == IF density >= 0 THEN density ELSE -density
    IN  100 * diff > 5 * size

Converted(radius, units_radius) ==
    IF units_radius = "angstrom" \/ units_radius = "ang"
    THEN angstrom_to_bohr(radius) ELSE radius

check_rad_dens_init(at_mass, radius, density, units_radius, units_density) ==
    IF ~IsNumber(density) THEN RadDens("density_error", None, None)
    ELSE IF ~IsNumber(radius) THEN RadDens("density_error", None, None)
    ELSE
    LET r == Converted(radius.v, units_radius)
        d == density.v
    IN  IF d = DensSentinel /\ r # RadSentinel
        THEN IF r < RadMin THEN RadDens("density_error", None, None)
             ELSE RadDens("none", r, radius_to_dens(at_mass, r))
        ELSE IF r = RadSentinel /\ d # DensSentinel
        THEN IF d > DensMax \/ d < 0 THEN RadDens("density_error", None, None)
             ELSE IF d = 0 THEN RadDens("ZeroDivisionError", None, None)
             ELSE RadDens("none", dens_to_radius(at_mass, d), d)
        ELSE IF r # RadSentinel /\ d # DensSentinel
        THEN IF r = 0 \/ d = 0 THEN RadDens("ZeroDivisionError", None, None)
             ELSE IF Incompatible(radius_to_dens(at_mass, r), d)
                  THEN RadDens("density_error", None, None)
                  ELSE RadDens("none", r, radius_to_dens(at_mass, r))
        ELSE RadDens("density_error", None, None)

check_radius(radius, units_radius) ==
    IF ~IsNumber(radius) THEN Fail("density_error")
    ELSE IF Converted(radius.v, units_radius) < RadMin THEN Fail("density_error")
    ELSE Ok(Converted(radius.v, units_radius))

check_density(density, units_density) ==
    IF ~IsNumber(density) THEN Fail("density_error")
    ELSE IF density.v > DensMax \/ density.v < 0 THEN Fail("density_error")
    ELSE Ok(density.v)

RadiusArgs == {PyFloat(r) : r \in {RadSentinel, 0, RadMin, 16, 30, 50}} \cup {PyStr(0)}
DensityArgs == {PyFloat(d) : d \in {DensSentinel, -50, 0, 270, 500, DensMax, DensMax + 1}}
                  \cup {PyInt(300), PyStr(0)}

RadInit ==
    /\ ScfInit(1, 0)
    /\ SpinOff
    /\ CtorOff
    /\ call_in \in [at_mass : {1, 27},
                    radius : RadiusArgs,
                    density : DensityArgs,
                    units_radius : {"bohr", "angstrom", "ang"},
                    units_density : {"g/cm3"}]
    /\ call_out = [init |-> None, radius |-> None, density |-> None]

Call_check_rad_dens_init ==
    /\ call_out # None
    /\ call_out.init = None
    /\ call_out' = [call_out EXCEPT !.init =
          check_rad_dens_init(call_in.at_mass, call_in.radius, call_in.density,
                              call_in.units_radius, call_in.units_density)]
    /\ UNCHANGED <<call_in, scfvars, spinvars, ctorvars>>

Call_check_radius ==
    /\ call_out # None
    /\ call_out.radius = None
    /\ call_out' = [call_out EXCEPT !.radius =
          check_radius(call_in.radius, call_in.units_radius)]
    /\ UNCHANGED <<call_in, scfvars, spinvars, ctorvars>>

Call_check_density ==
    /\ call_out # None
    /\ call_out.density = None
    /\ call_out' = [call_out EXCEPT !.density =
          check_density(call_in.density, call_in.units_density)]
    /\ UNCHANGED <<call_in, scfvars, spinvars, ctorvars>>

RadNext ==
    \/ Call_check_rad_dens_init
    \/ Call_check_radius
    \/ Call_check_density

RadSpec == RadInit /\ [][RadNext]_vars


\* ------------------------------------------------------- Atom: temperature
\* str.lower() on the strings the callers pass
Lower(s) ==
    CASE s = "Ha" -> "ha"
      [] s = "eV" -> "ev"
      [] s = "K" -> "k"
      [] s = "Dirichlet" -> "dirichlet"
      [] s = "NEUMANN" -> "neumann"
      [] s = "Ideal" -> "ideal"
      [] OTHER -> s

\* a temperature payload counts thousandths of its unit
\* unitconv.ev_to_ha * temp (1 eV = 0.03675 Ha)
ev_to_ha(temp) == (temp * 3675) \div 100000
\* unitconv.K_to_ha * temp (1 K = 3.167e-6 Ha)
K_to_ha(temp) == (temp * 3167) \div 1000000000

TempLow == 10       \* 0.01
TempHigh == 3500    \* 3.5

check_units_temp(units_temp) ==
    IF Lower(units_temp) \notin {"ha", "ev", "k"} THEN Fail("temp_error")
    ELSE Ok(Lower(units_temp))

\* check_temp whose warning branches hand back the unconverted input
check_temp_WarnRaw(temp, units_temp) ==
    IF ~IsNumber(temp) THEN Fail("temp_error")
    ELSE LET t == IF Lower(units_temp) = "ev" THEN ev_to_ha(temp.v)
                  ELSE IF Lower(units_temp) = "k" THEN K_to_ha(temp.v)
                  ELSE temp.v
         IN  IF t < 0 THEN Fail("temp_error")
             ELSE IF t < TempLow THEN [err |-> "none", val |-> temp.v, warn |-> "low"]
             ELSE IF t > TempHigh THEN [err |-> "none", val |-> temp.v, warn |-> "high"]
             ELSE Ok(t)

check_temp(temp, units_temp) ==
    IF ~IsNumber(temp) THEN Fail("temp_error")
    ELSE LET t == IF Lower(units_temp) = "ev" THEN ev_to_ha(temp.v)
                  ELSE IF Lower(units_temp) = "k" THEN K_to_ha(temp.v)
                  ELSE temp.v
         IN  IF t < 0 THEN Fail("temp_error")
             ELSE IF t < TempLow THEN [err |-> "none", val |-> t, warn |-> "low"]
             ELSE IF t > TempHigh THEN [err |-> "none", val |-> t, warn |-> "high"]
             ELSE Ok(t)

TempArgs == {PyFloat(t) : t \in {-1000, -1, 0, 5, TempLow, 1000, TempHigh,
                                 TempHigh + 1, 50000, 300000}}
               \cup {PyInt(1000), PyStr(0)}
UnitsTempArgs == {"ha", "Ha", "ev", "eV", "k", "K", "hartree", "kelvin"}

TempInit ==
    /\ ScfInit(1, 0)
    /\ SpinOff
    /\ CtorOff
    /\ call_in \in [temp : TempArgs, units_temp : UnitsTempArgs]
    /\ call_out = [units |-> None, temp |-> None]

Call_check_units_temp ==
    /\ call_out # None
    /\ call_out.units = None
    /\ call_out' = [call_out EXCEPT !.units = check_units_temp(call_in.units_temp)]
    /\ UNCHANGED <<call_in, scfvars, spinvars, ctorvars>>

Call_check_temp ==
    /\ call_out # None
    /\ call_out.temp = None
    /\ call_out' = [call_out EXCEPT !.temp =
          check_temp(call_in.temp, call_in.units_temp)]
    /\ UNCHANGED <<call_in, scfvars, spinvars, ctorvars>>

TempNext ==
    \/ Call_check_units_temp
    \/ Call_check_temp

TempSpec == TempInit /\ [][TempNext]_vars


\* --------------------------------------- ISModel: bc and unbound treatment
\* a value passed where a string is expected: its type and its text
PyText(s) == [t |-> "str", s |-> s]
NotText == {[t |-> "int", s |-> "1"], [t |-> "NoneType", s |-> "None"]}

bcs_permitted == {"dirichlet", "neumann"}
unbound_permitted == {"ideal"}

\* bc.lower() is evaluated and dropped; isinstance tests the literal "bc";
\* the message of the rejection is built as str + list
check_bc(bc) ==
    IF bc.t # "str" THEN Fail("AttributeError")
    ELSE IF bc.s \notin bcs_permitted THEN Fail("TypeError")
    ELSE Ok(bc)

\* unbound.lower() is evaluated and dropped before the isinstance test
check_unbound(unbound) ==
    IF unbound.t # "str" THEN Fail("AttributeError")
    ELSE IF unbound.s \notin unbound_permitted THEN Fail("TypeError")
    ELSE Ok(unbound)

BcArgs == {PyText(s) : s \in {"dirichlet", "Dirichlet", "neumann", "NEUMANN",
                              "periodic", "ideal"}} \cup NotText
UnboundArgs == {PyText(s) : s \in {"ideal", "Ideal", "quantum", "dirichlet"}}
                  \cup NotText

BcInit ==
    /\ ScfInit(1, 0)
    /\ SpinOff
    /\ CtorOff
    /\ call_in \in [bc : BcArgs, unbound : UnboundArgs]
    /\ call_out = [bc |-> None, unbound |-> None]

Call_check_bc ==
    /\ call_out # None
    /\ call_out.bc = None
    /\ call_out' = [call_out EXCEPT !.bc = check_bc(call_in.bc)]
    /\ UNCHANGED <<call_in, scfvars, spinvars, ctorvars>>

Call_check_unbound ==
    /\ call_out # None
    /\ call_out.unbound = None
    /\ call_out' = [call_out EXCEPT !.unbound = check_unbound(call_in.unbound)]
    /\ UNCHANGED <<call_in, scfvars, spinvars, ctorvars>>

BcNext ==
    \/ Call_check_bc
    \/ Call_check_unbound

BcSpec == BcInit /\ [][BcNext]_vars


\* ----------------------------------------------- ISModel: xc functionals
\* a functional given by id or name: its type and its text
PyVal(t, s) == [t |-> t, s |-> s]

\* xc.check_xc_func(xc_func, id_supp): the resolved functional and a code,
\* 0 resolved, 1 not an id or name, 2 unknown, 3 family not supported
check_xc_func(xc_func) ==
    IF xc_func.t \notin {"int", "str"} THEN [func |-> None, err_xc |-> 1]
    ELSE IF xc_func.s \in {"lda_x", "1"}
         THEN [func |-> PyVal("xc_func", "lda_x"), err_xc |-> 0]
    ELSE IF xc_func.s \in {"lda_c_pw", "12"}
         THEN [func |-> PyVal("xc_func", "lda_c_pw"), err_xc |-> 0]
    ELSE IF xc_func.s \in {"gga_x_pbe", "101"} THEN [func |-> None, err_xc |-> 3]
    ELSE [func |-> None, err_xc |-> 2]

\* InputError.xc_error(err_msg): msg is the reason that is printed
xc_error(msg) == [err |-> "xc_error", val |-> None, msg |-> msg]
XcRaise(kind) == [err |-> kind, val |-> None, msg |-> "none"]

\* the message of code 1 names xctype, which is not defined; the messages of
\* codes 2 and 3 concatenate xc_type with a string
check_xc(xc_func, xc_type) ==
    LET r == check_xc_func(xc_func)
    IN  IF r.err_xc = 1 THEN XcRaise("NameError")
        ELSE IF r.err_xc = 2 THEN
            IF xc_type.t # "str" THEN XcRaise("TypeError")
            ELSE xc_error("not a valid name or id")
        ELSE IF r.err_xc = 3 THEN
            IF xc_type.t # "str" THEN XcRaise("TypeError")
            ELSE xc_error("family not yet supported")
        ELSE [err |-> "none", val |-> r.func, msg |-> "none"]

XcArgs == {PyVal("str", "lda_x"), PyVal("int", "1"), PyVal("str", "lda_c_pw"),
           PyVal("int", "12"), PyVal("str", "gga_x_pbe"), PyVal("int", "101"),
           PyVal("str", "nonsense"), PyVal("float", "1.5")}

XcInit ==
    /\ ScfInit(1, 0)
    /\ SpinOff
    /\ CtorOff
    /\ call_in \in [xfunc_id : XcArgs, cfunc_id : XcArgs]
    /\ call_out = [x |-> None, c |-> None, init |-> None]

Call_check_xc_exchange ==
    /\ call_out # None
    /\ call_out.x = None
    /\ call_out' = [call_out EXCEPT !.x =
          check_xc(call_in.xfunc_id, PyVal("str", "exchange"))]
    /\ UNCHANGED <<call_in, scfvars, spinvars, ctorvars>>

Call_check_xc_correlation ==
    /\ call_out # None
    /\ call_out.c = None
    /\ call_out' = [call_out EXCEPT !.c =
          check_xc(call_in.cfunc_id, PyVal("str", "correlation"))]
    /\ UNCHANGED <<call_in, scfvars, spinvars, ctorvars>>

\* models.py line 101: one call, the correlation id in the place of xc_type;
\* resolved is the set of ids handed to the resolver
ISModel_init_xc ==
    /\ call_out # None
    /\ call_out.init = None
    /\ call_out' = [call_out EXCEPT !.init =
          [res |-> check_xc(call_in.xfunc_id, call_in.cfunc_id),
           resolved |-> {call_in.xfunc_id}]]
    /\ UNCHANGED <<call_in, scfvars, spinvars, ctorvars>>

XcNext ==
    \/ Call_check_xc_exchange
    \/ Call_check_xc_correlation
    \/ ISModel_init_xc

XcSpec == XcInit /\ [][XcNext]_vars


\* --------------------------------------- EnergyCalcs: validators on their own
NgridArgs == {Absent, PyInt(-1), PyInt(0), PyInt(1), PyInt(499), PyInt(500),
              PyInt(5000), PyInt(5001), PyFloat(1000), PyStr(0)}
X0Args == {Absent, PyInt(-12), PyFloat(-6), PyInt(-3), PyFloat(-2), PyStr(0)}

GridInit ==
    /\ ScfInit(1, 0)
    /\ SpinOff
    /\ CtorOff
    /\ call_in \in [ngrid : NgridArgs, x0 : X0Args]
    /\ call_out = None

Call_check_grid_params ==
    /\ call_in # None
    /\ call_out = None
    /\ call_out' = check_grid_params(call_in, config_grid_params)
    /\ UNCHANGED <<call_in, scfvars, spinvars, ctorvars>>

GridNext == Call_check_grid_params

GridSpec == GridInit /\ [][GridNext]_vars


MaxscfArgs == {Absent, PyInt(0), PyInt(1), PyInt(MaxMaxscf), PyFloat(2), PyStr(0)}
MixfracArgs == {Absent, PyFloat(-1), PyFloat(0), PyFloat(MixDen),
                PyFloat(MixDen + 1), PyInt(0), PyInt(MixDen), PyStr(0)}

ScfParInit ==
    /\ \E m \in 1..MaxMaxscf, a \in 0..MixDen : ScfInit(m, a)
    /\ SpinOff
    /\ CtorOff
    /\ call_in \in [maxscf : MaxscfArgs, mixfrac : MixfracArgs]
    /\ call_out = None

Call_check_scf_params ==
    /\ call_in # None
    /\ call_out = None
    /\ call_out' = check_scf_params(call_in, config.scf_params)
    /\ UNCHANGED <<call_in, scfvars, spinvars, ctorvars>>

ScfParNext == Call_check_scf_params

ScfParSpec == ScfParInit /\ [][ScfParNext]_vars


\* ------------------------------------------------- ISModel: calc_nele
\* a float cut to an integer by np.array(..., dtype=int): towards zero
TruncHalf(x) == IF x >= 0 THEN x \div 2 ELSE -((-x) \div 2)

\* not spinpol
Falsy(x) == x = None \/ (x.t \in {"bool", "int", "float"} /\ x.v = 0)

\* calc_nele(spinmag, nele, spinpol): the array of electron numbers
calc_nele(spinmag, nele, spinpol) ==
    IF Falsy(spinpol) THEN <<nele>>
    ELSE <<TruncHalf(nele + spinmag.v), TruncHalf(nele - spinmag.v)>>

NeleInit ==
    /\ ScfInit(1, 0)
    /\ CtorOff
    /\ spin_pc = "call"
    /\ spin_nele \in 1..MaxNele
    /\ spin_arg \in SpinmagArgs
    /\ spin_res = None
    /\ call_in \in [spinpol : {PyBool(TRUE), PyBool(FALSE)}]
    /\ call_out = None

\* the electron numbers of a magnetization check_spinmag has accepted
Call_calc_nele ==
    /\ spin_pc = "done"
    /\ spin_res.err = "none"
    /\ call_in # None
    /\ call_out = None
    /\ call_out' = [nele |-> calc_nele(spin_res.val, spin_nele, call_in.spinpol)]
    /\ UNCHANGED <<call_in, scfvars, spinvars, ctorvars>>

NeleNext ==
    \/ Call_check_spinmag
    \/ Call_calc_nele

NeleSpec == NeleInit /\ [][NeleNext]_vars

\* ================================================================ claims
Maxscf == config.scf_params.maxscf.v
Mixfrac == config.scf_params.mixfrac.v
InLoop == pc \in {"build", "mix", "test"}
LoopLeft == pc \in {"final", "returned", "exit"}
Evals == Len(tracker_log)
LastFlag == tracker_log[Len(tracker_log)]
NeverConverged == \A k \in 1..Len(tracker_log) : ~tracker_log[k]

\* C1: whatever flags the tracker returns, the SCF loop is left again, the
\* tracker is evaluated at most maxscf + 1 times and no more than maxscf
\* iterations are executed.
C1_LoopTerminates ==
    /\ [](/\ Evals <= Maxscf + 1
          /\ Evals <= step_log.build
          /\ step_log.build <= Maxscf
          /\ step_log.solve <= Maxscf)
    /\ (InLoop ~> LoopLeft)

C1_Witness ==
    /\ pc = "returned"
    /\ Evals = Maxscf
    /\ Maxscf >= 2

\* C2: when the tracker never reports convergence the loop executes exactly
\* maxscf iterations (indices 0..maxscf-1), is left unconverged, raises
\* nothing, and write_final runs exactly once on the energy, orbitals,
\* density and convergence values of the last iteration.
C2_BudgetExhausted ==
    /\ (pc = "exit" => step_log = NoStep /\ n_final = 0)
    /\ (pc = "final" /\ NeverConverged =>
            /\ iscf = Maxscf - 1
            /\ step_log.build = Maxscf /\ step_log.solve = Maxscf
            /\ step_log.test = Maxscf
            /\ ~conv_vals.complete
            /\ n_final = 0)
    /\ (pc = "returned" /\ NeverConverged =>
            /\ step_log.build = Maxscf /\ step_log.solve = Maxscf
            /\ step_log.test = Maxscf
            /\ n_final = 1
            /\ err = "none"
            /\ final_report.text = "SCF cycle did not converge"
            /\ final_report.maxscf = PyInt(Maxscf)
            /\ final_report.conv_vals = [complete |-> FALSE, iter |-> Maxscf - 1]
            /\ final_report.energy.iter = Maxscf - 1
            /\ final_report.orbitals.iter = Maxscf - 1
            /\ final_report.density.iter = Maxscf - 1)

C2_Witness ==
    /\ pc = "returned"
    /\ NeverConverged
    /\ Maxscf >= 3
    /\ step_log.test = Maxscf
    /\ n_final = 1

\* C3: the loop stops at the first iteration whose tracker result is
\* converged (no build, mixing or orbital step runs after it), and the run
\* ends as converged exactly when the last tracker result is converged.
C3_StopsAtFirstConverged ==
    /\ \A k \in 1..Len(tracker_log) :
          tracker_log[k] =>
             /\ k = Len(tracker_log)
             /\ pc \in {"final", "returned"}
             /\ step_log.build = k /\ step_log.solve = k /\ step_log.test = k
             /\ step_log.mix = IF k > 2 THEN k - 2 ELSE 0
    /\ (pc = "final" /\ Evals > 0 => conv_vals.complete = LastFlag)
    /\ (pc = "returned" =>
            (final_report.text = "SCF cycle converged") = LastFlag)

C3_Witness ==
    /\ pc = "returned"
    /\ tracker_log = <<FALSE, TRUE>>
    /\ Maxscf >= 3
    /\ final_report.text = "SCF cycle converged"

\* C4: in iteration k > 1 the orbital solve receives
\* mixfrac * v_new(k) + (1 - mixfrac) * v_used(k-1), v_used(k-1) being what
\* the solve of iteration k-1 received; iterations 0 and 1 pass the raw new
\* potential; after the solve the stored previous potential is the
\* potential just used.
C4_MixingRule ==
    /\ (pc = "test" /\ iscf > 1 =>
            LET used == solve_log[Len(solve_log)]
                before == solve_log[Len(solve_log) - 1]
                new == pot.v_s
            IN  /\ Len(solve_log) = 2
                /\ used.fin = (new.fin /\ before.fin)
                /\ used.fin =>
                      MixDen * used.v = Mixfrac * new.v + (MixDen - Mixfrac) * before.v)
    /\ (pc = "test" /\ iscf <= 1 => solve_log[Len(solve_log)] = pot.v_s)
    /\ (pc \in {"build", "mix", "test", "final"} /\ solve_log # <<>> =>
            v_s_old = solve_log[Len(solve_log)])

C4_Witness ==
    /\ pc = "test"
    /\ iscf = 2
    /\ v_s.fin
    /\ v_s # pot.v_s
    /\ v_s # solve_log[1]
    /\ v_s_old = v_s

ScfArgCheck == check_scf_params(args.scf_params, config.scf_params)

\* C5: a call whose scf_params argument is invalid aborts with an SCF
\* parameter error before the first iteration, and a call whose scf_params
\* is valid runs the loop with the caller's maxscf and mixfrac.
C5_ScfParamsChecked ==
    args # None =>
       /\ (ScfArgCheck.err # "none" => pc = "exit" /\ step_log = NoStep)
       /\ (ScfArgCheck.err = "none" /\ InLoop =>
              /\ range_n = ScfArgCheck.val.maxscf.v
              /\ LoopMixfrac(config, args) = ScfArgCheck.val.mixfrac)

\* C6: the caller receives, with the result, a converged flag equal to the
\* flag of the last tracker evaluation.
C6_CallerGetsFlag ==
    pc = "returned" =>
       /\ "converged" \in DOMAIN ret
       /\ ret.converged = LastFlag

\* C6 as amended: the caller receives the energy object of the last
\* iteration and nothing else; the flag of the last tracker evaluation goes
\* to write_final, whose wording reports a run that exhausted maxscf as not
\* converged.
C6_FlagInReportOnly ==
    pc = "returned" =>
       /\ DOMAIN ret = {"energy"}
       /\ ret.energy = final_report.energy
       /\ ret.energy.iter = Evals - 1
       /\ final_report.conv_vals.complete = LastFlag
       /\ (final_report.text = "SCF cycle converged") = LastFlag
       /\ (NeverConverged => final_report.text = "SCF cycle did not converge")

C6_Witness ==
    /\ pc = "returned"
    /\ NeverConverged
    /\ Evals = Maxscf
    /\ ret.energy.iter = Maxscf - 1
    /\ final_report.text = "SCF cycle did not converge"

\* C7: a non-finite density, potential, energy or orbital set aborts the
\* run in its iteration: the convergence test, the final report and the
\* return never see a non-finite quantity.
C7_NonFiniteAborts ==
    /\ (pc = "test" =>
           rho.fin /\ pot.v_s.fin /\ energy.F_tot.fin /\ v_s.fin /\ orbs.fin)
    /\ (pc = "returned" =>
           final_report.energy.F_tot.fin /\ final_report.orbitals.fin)

\* C8: a call that omits a grid or convergence key runs with the constant
\* default of that key, whatever earlier calls supplied.
C8_DefaultsConstant ==
    args # None /\ pc \in {"build", "mix", "test", "final", "returned"} =>
       /\ \A k \in {"ngrid", "x0"} :
             args.grid_params[k] = Absent =>
                config.grid_params[k] = config_grid_params[k]
       /\ \A k \in {"econv", "nconv", "vconv"} :
             args.conv_params[k] = Absent =>
                config.conv_params[k] = config_conv_params[k]

SpinGiven == spin_pc = "done" /\ spin_arg.t = "int" /\ spin_arg.v # -1

\* C9: for an explicitly given integer magnetization m (m # -1) and electron
\* count N, check_spinmag returns m unchanged iff m >= 0 and (N - m) is
\* even; every other combination fails with the spin error.
C9_SpinmagParity ==
    SpinGiven =>
       LET m == spin_arg.v
           N == spin_nele
           accepted == m >= 0 /\ (N - m) % 2 = 0
       IN  /\ (spin_res.err = "none") = accepted
           /\ (accepted => spin_res.val = PyInt(m))
           /\ (~accepted => spin_res.err = "spinmag_error" /\ spin_res.val = None)

C9_Witness ==
    /\ SpinGiven
    /\ spin_arg.v = 2
    /\ spin_nele = 5
    /\ spin_res.err = "spinmag_error"

\* C10: with the automatic magnetization -1, check_spinmag returns 0 for an
\* even electron count and 1 for an odd one, and never fails.
C10_SpinmagAuto ==
    spin_pc = "done" /\ spin_arg = PyInt(-1) =>
       /\ spin_res.err = "none"
       /\ spin_res.val = PyInt(IF spin_nele % 2 = 0 THEN 0 ELSE 1)

C10_Witness ==
    /\ spin_pc = "done"
    /\ spin_arg = PyInt(-1)
    /\ spin_nele = 7
    /\ spin_res.val = PyInt(1)


\* C11: constructing the model with a spin-polarization value that is not a
\* boolean fails with the spin-polarization error before the spin-channel
\* count or the per-channel electron numbers are written to the config.
C11_SpinpolChecked ==
    ctor_pc # "off" /\ ctor_in.spinpol.t # "bool" =>
       /\ ctor_cfg = None
       /\ ctor_pc \in {"spin", "raised"}
       /\ (ctor_pc = "raised" => ctor_err = "spinpol_error")


RadInitDone == call_out.init # None
RadIn == call_in.radius.v
DensIn == call_in.density.v
BothNumbers == IsNumber(call_in.radius) /\ IsNumber(call_in.density)
RadConv == Converted(RadIn, call_in.units_radius)

\* C12: with exactly one of radius and density supplied (in range) and the
\* other the sentinel -1, check_rad_dens_init derives the missing one from
\* the supplied one and returns the supplied one unchanged apart from the
\* unit conversion, for each of the radius units bohr, angstrom and ang.
C12_DerivesMissing ==
    RadInitDone /\ BothNumbers =>
       /\ (RadIn = RadSentinel /\ DensIn > 0 /\ DensIn <= DensMax =>
              call_out.init =
                 RadDens("none", dens_to_radius(call_in.at_mass, DensIn), DensIn))
       /\ (DensIn = DensSentinel /\ RadIn # RadSentinel /\ RadConv > RadMin =>
              call_out.init =
                 RadDens("none", RadConv, radius_to_dens(call_in.at_mass, RadConv)))

\* C13: with both radius and density supplied, check_rad_dens_init fails
\* with the density error when the density computed from the radius differs
\* from the supplied one by more than 5% relative, and otherwise returns the
\* radius and the density computed from the radius.
C13_BothSupplied ==
    RadInitDone /\ BothNumbers /\ RadIn # RadSentinel /\ DensIn # DensSentinel =>
       IF RadConv = 0
       THEN call_out.init.err = "density_error"
       ELSE LET computed == radius_to_dens(call_in.at_mass, RadConv)
                diff == IF computed >= DensIn THEN computed - DensIn
                        ELSE DensIn - computed
                size == IF DensIn >= 0 THEN DensIn ELSE -DensIn
            IN  IF 100 * diff > 5 * size
                THEN call_out.init.err = "density_error"
                ELSE call_out.init = RadDens("none", RadConv, computed)

\* C14: radius/density validation returns only a radius above 0.1 and a
\* density in (0, 100], and fails with the density error for every supplied
\* radius at or below 0.1 and every supplied density outside (0, 100].
C14_Bounds ==
    /\ (RadInitDone /\ BothNumbers =>
          /\ (call_out.init.err = "none" =>
                /\ call_out.init.radius > RadMin
                /\ call_out.init.density > 0
                /\ call_out.init.density <= DensMax)
          /\ (RadIn # RadSentinel /\ RadConv <= RadMin =>
                call_out.init.err = "density_error")
          /\ (DensIn # DensSentinel /\ (DensIn <= 0 \/ DensIn > DensMax) =>
                call_out.init.err = "density_error"))
    /\ (call_out.radius # None /\ IsNumber(call_in.radius) =>
          (call_out.radius.err = "none") = (RadConv > RadMin))
    /\ (call_out.density # None /\ IsNumber(call_in.density) =>
          (call_out.density.err = "none") = (DensIn > 0 /\ DensIn <= DensMax))


UnitsAccepted == {"ha", "ev", "k"}
\* the temperature in hartree, by the factor of its (recognised) unit
InHartree ==
    LET u == Lower(call_in.units_temp)
        t == call_in.temp.v
    IN  IF u = "ev" THEN (t * 3675) \div 100000
        ELSE IF u = "k" THEN (t * 3167) \div 1000000000
        ELSE t

\* C15: check_temp fails with the temperature error exactly when the input
\* is not a number or its value in hartree is negative; otherwise it returns
\* the converted value, whether or not a low (< 0.01) or high (> 3.5)
\* warning is printed.
C15_TempChecked ==
    call_out.temp # None /\ Lower(call_in.units_temp) \in UnitsAccepted =>
       LET bad == ~IsNumber(call_in.temp) \/ InHartree < 0
           warned == ~bad /\ (InHartree < TempLow \/ InHartree > TempHigh)
       IN  /\ call_out.temp.err = (IF bad THEN "temp_error" ELSE "none")
           /\ (~bad => call_out.temp.val = InHartree)
           /\ (call_out.temp.warn # "none") = warned

C15_Witness ==
    /\ call_out.temp # None
    /\ call_in.units_temp = "eV"
    /\ call_in.temp = PyFloat(5)
    /\ call_out.temp.warn = "low"
    /\ call_out.temp.val = 0
    /\ call_out.temp.err = "none"

\* C16: temperature validation with a unit string outside the accepted set
\* (compared case-insensitively) always fails; no call returns a temperature
\* computed with an unrecognised unit.
C16_UnknownUnitFails ==
    call_out # None /\ Lower(call_in.units_temp) \notin UnitsAccepted =>
       /\ (call_out.units # None => call_out.units.err # "none")
       /\ (call_out.temp # None => call_out.temp.err # "none")


\* C17: check_bc and check_unbound accept a string iff it equals, ignoring
\* letter case, a member of the allow-list ({dirichlet, neumann}, {ideal});
\* every other input fails with bc_error / unbound_error and nothing else.
C17_AllowLists ==
    /\ call_out.bc # None =>
          call_out.bc.err =
             (IF call_in.bc.t = "str"
                   /\ Lower(call_in.bc.s) \in {"dirichlet", "neumann"}
              THEN "none" ELSE "bc_error")
    /\ call_out.unbound # None =>
          call_out.unbound.err =
             (IF call_in.unbound.t = "str"
                   /\ Lower(call_in.unbound.s) \in {"ideal"}
              THEN "none" ELSE "unbound_error")


\* what functional validation owes for an id, by the resolver's code
XcOwed(id, out) ==
    LET r == check_xc_func(id)
    IN  CASE r.err_xc = 0 -> out.err = "none" /\ out.val = r.func
          [] r.err_xc = 1 -> out.err = "xc_error" /\ out.msg = "not an id or name"
          [] r.err_xc = 2 -> out.err = "xc_error" /\ out.msg = "not a valid name or id"
          [] r.err_xc = 3 -> out.err = "xc_error" /\ out.msg = "family not yet supported"

\* C18: for each resolver code 1, 2, 3 functional validation fails with a
\* functional error whose reason tells the case; with no code it returns
\* the resolved functional; model construction resolves one functional for
\* exchange and one for correlation.
C18_XcChecked ==
    /\ call_out.x # None => XcOwed(call_in.xfunc_id, call_out.x)
    /\ call_out.c # None => XcOwed(call_in.cfunc_id, call_out.c)
    /\ call_out.init # None =>
          call_out.init.resolved = {call_in.xfunc_id, call_in.cfunc_id}


\* the grid parameters after the defaults have filled the missing keys
GridFilled ==
    [ngrid |-> Lookup(call_in, config_grid_params, "ngrid"),
     x0 |-> Lookup(call_in, config_grid_params, "x0")]

\* C19: check_grid_params succeeds iff the default-filled grid point count
\* is a positive integer and x0 <= -3; a count below 500 or above 5000 only
\* warns and the returned parameters are the filled ones; a non-integer or
\* non-positive count or x0 > -3 fails with a grid error. (x0 a number.)
C19_GridChecked ==
    call_out # None /\ IsNumber(GridFilled.x0) =>
       LET good == /\ IsIntc(GridFilled.ngrid)
                   /\ GridFilled.ngrid.v > 0
                   /\ GridFilled.x0.v <= -3
       IN  /\ call_out.err = (IF good THEN "none" ELSE "grid_error")
           /\ (good => call_out.val = GridFilled)
           /\ (call_out.warn # "none" =>
                 GridFilled.ngrid.v < 500 \/ GridFilled.ngrid.v > 5000)


\* the scf parameters after the defaults have filled the missing keys
ScfFilled ==
    [maxscf |-> Lookup(call_in, config.scf_params, "maxscf"),
     mixfrac |-> Lookup(call_in, config.scf_params, "mixfrac")]

MaxscfGood == IsIntc(ScfFilled.maxscf) /\ ScfFilled.maxscf.v >= 1
MixfracInRange ==
    /\ IsNumber(ScfFilled.mixfrac)
    /\ ScfFilled.mixfrac.v >= 0
    /\ ScfFilled.mixfrac.v <= MixDen

C22_OldPotentialBound ==
    /\ err # "UnboundLocalError"
    /\ (pc = "mix" /\ iscf > 1 =>
            /\ v_s_old # Unbound
            /\ orbs.iter = iscf - 1
            /\ v_s_old = v_s)

C22_Witness ==
    /\ pc = "mix"
    /\ iscf = 2
    /\ step_log.solve = 2
    /\ v_s_old = v_s
    /\ v_s_old.fin
    /\ v_s_old # pot.v_s


\* C23: for every electron count N and every magnetization m accepted by
\* check_spinmag, calc_nele yields one channel holding N when not
\* spin-polarized and the two channels (N+m)/2 and (N-m)/2 when
\* spin-polarized; the channel counts are non-negative integers summing to N.
C23_ChannelCounts ==
    spin_pc = "done" /\ call_out # None =>
       LET N == spin_nele
           m == spin_res.val.v
           nele == call_out.nele
       IN  /\ (call_in.spinpol = PyBool(FALSE) => nele = <<N>>)
           /\ (call_in.spinpol = PyBool(TRUE) =>
                  /\ Len(nele) = 2
                  /\ 2 * nele[1] = N + m
                  /\ 2 * nele[2] = N - m)
           /\ \A i \in 1..Len(nele) : nele[i] >= 0
           /\ (IF Len(nele) = 1 THEN nele[1] ELSE nele[1] + nele[2]) = N

====
